---- MODULE Spec2Model ----
(***************************************************************************)
(* The block-puzzle App component (src/unnamed/part_000) as a state        *)
(* machine: the React state of App, one action per handler or effect.      *)
(* Handlers run to completion with their setState calls batched; the       *)
(* game-over effect (lines 48-61) runs after the render that follows a     *)
(* change of one of its dependencies and before the next discrete input.   *)
(***************************************************************************)
EXTENDS Integers, Sequences, FiniteSets, TLC

VARIABLES
    score,            \* line 12
    highScore,        \* line 13
    grid,             \* line 14: [row -> [col -> colour or null]]
    availableShapes,  \* line 15: sequence of shapes
    selectedShape,    \* line 16: index into availableShapes (0-based) or NoSelection
    gameOver,         \* line 17
    streak,           \* line 18
    showAnimation,    \* line 19
    animationData,    \* line 20
    hideTimers,       \* number of pending setTimeout callbacks of line 128
    mounted,          \* FALSE until the mount effect (lines 26-39) has run
    effectPending,    \* the game-over effect is due (a dependency changed)
    cookie,           \* the blockPuzzleHighScore cookie: digits, or NoCookie
    placements,       \* successful placements so far (exploration budget)
    hoverPosition,    \* GameBoard: the hovered cell, or NoHover
    previewGrid,      \* GameBoard: the preview board, or NoPreview
    previewPending,   \* GameBoard: the preview effect is due
    flashingCells,    \* GameBoard: the list of flashing cells
    flashTimer,       \* GameBoard: the 500 ms timer of the flashing effect runs
    flashPending,     \* GameBoard: the flashing effect is due
    last              \* observation of the operation that produced this state

vars == <<score, highScore, grid, availableShapes, selectedShape, gameOver,
          streak, showAnimation, animationData, hideTimers, mounted,
          effectPending, cookie, placements, hoverPosition, previewGrid,
          previewPending, flashingCells, flashTimer, flashPending, last>>

\* The state of GameBoard's hover preview
hoverVars == <<hoverPosition, previewGrid, previewPending>>

\* The state of GameBoard's flashing of completed lines
flashVars == <<flashingCells, flashTimer, flashPending>>

-----------------------------------------------------------------------------
(* Bounds of the exploration *)

MaxPlacements == 3

-----------------------------------------------------------------------------
(* Board, shapes *)

GRID_SIZE == 8

Idx == 0 .. (GRID_SIZE - 1)

Cells == Idx \X Idx

null == "null"

NoSelection == 0 - 1

EmptyGrid == [r \in Idx |-> [c \in Idx |-> null]]

\* Shape templates: block offsets relative to the anchor, in array order
Dot == <<(<<0, 0>>)>>

HLine4 == <<(<<0, 0>>), (<<0, 1>>), (<<0, 2>>), (<<0, 3>>)>>

Square2 == <<(<<0, 0>>), (<<0, 1>>), (<<1, 0>>), (<<1, 1>>)>>

Corner3 == <<(<<0, 0>>), (<<1, 0>>), (<<1, 1>>)>>

Shape(blocks, color) == [blocks |-> blocks, color |-> color]

\* The draws of generateShapes(3) the model explores
Draws ==
    { <<Shape(Dot, "red"), Shape(Dot, "blue"), Shape(HLine4, "red")>>,
      <<Shape(Corner3, "blue"), Shape(Square2, "red"), Shape(Dot, "blue")>> }

generateShapes(count) == { d \in Draws : Len(d) = count }

InBounds(r, c) == r >= 0 /\ r < GRID_SIZE /\ c >= 0 /\ c < GRID_SIZE

\* Target cells of a shape anchored at (row, col)
Targets(shape, row, col) ==
    { <<row + shape.blocks[i][1], col + shape.blocks[i][2]>> :
        i \in 1 .. Len(shape.blocks) }

\* utils/gameLogic checkPlacement: every target cell in bounds and empty
checkPlacement(g, shape, row, col) ==
    \A t \in Targets(shape, row, col) :
        InBounds(t[1], t[2]) /\ g[t[1]][t[2]] = null

RowFull(g, r) == \A c \in Idx : g[r][c] # null

ColFull(g, c) == \A r \in Idx : g[r][c] # null

FullRows(g) == { r \in Idx : RowFull(g, r) }

FullCols(g) == { c \in Idx : ColFull(g, c) }

\* utils/gameLogic clearLines: a new board with every cell of a complete row
\* or column emptied, the number of complete lines, the cleared cells
clearLines(g) ==
    LET rows == FullRows(g)
        cols == FullCols(g)
    IN [ updatedGrid |->
            [r \in Idx |-> [c \in Idx |->
                IF r \in rows \/ c \in cols THEN null ELSE g[r][c]]],
         clearedLines |-> Cardinality(rows) + Cardinality(cols),
         clearedPositions |->
            { cell \in Cells : cell[1] \in rows \/ cell[2] \in cols } ]

\* utils/gameLogic checkGameOver: no piece fits at any anchor
checkGameOver(g, shapes) ==
    \A i \in 1 .. Len(shapes) : \A cell \in Cells :
        ~checkPlacement(g, shapes[i], cell[1], cell[2])

-----------------------------------------------------------------------------
(* handlePlaceShape, lines 86-158, piece by piece *)

\* line 87: if (selectedShape === null || gameOver) return
EarlyReturn(sel, over) == sel = NoSelection \/ over

\* Mutant: the placement is applied without looking at canPlace
Proceeds_Always(canPlace) == TRUE

\* line 92: if (canPlace) { ... }
Proceeds(canPlace) == canPlace

\* line 94, const newGrid = [...grid]: the rows of the copy that are the input
\* board's own row arrays. The spread copies only the outer array, so all are.
SharedRows(g) == Idx

\* Mutant: row and column offsets of a block swapped
PlaceBlocks_Swapped(g, shape, rowIndex, colIndex) ==
    LET written == { <<rowIndex + shape.blocks[i][2],
                       colIndex + shape.blocks[i][1]>> :
                        i \in 1 .. Len(shape.blocks) }
    IN [r \in Idx |-> [c \in Idx |->
            IF <<r, c>> \in written THEN shape.color ELSE g[r][c]]]

\* lines 95-101: the shape's colour written to every in-bounds target cell
PlaceBlocks(g, shape, rowIndex, colIndex) ==
    LET written == { t \in Targets(shape, rowIndex, colIndex) :
                        InBounds(t[1], t[2]) }
    IN [r \in Idx |-> [c \in Idx |->
            IF <<r, c>> \in written THEN shape.color ELSE g[r][c]]]

\* What the input board reads after lines 95-101: writes through newGrid land
\* in every row array it shares with newGrid
InputAfterWrites(g, newGrid) ==
    [r \in Idx |-> IF r \in SharedRows(g) THEN newGrid[r] ELSE g[r]]

\* lines 104-105
PlacementPoints(shape) == Len(shape.blocks) * 10

\* Mutant: the else branch of lines 131-134 is missing
NewStreak_NoReset(prevStreak, clearedLines) ==
    IF clearedLines > 0 THEN prevStreak + 1 ELSE prevStreak

\* lines 112-115, 131-134
NewStreak(prevStreak, clearedLines) ==
    IF clearedLines > 0 THEN prevStreak + 1 ELSE 0

\* Mutant: the streak bonus taken from the new streak, not the new streak - 1
LinePoints_BonusOffByOne(prevStreak, clearedLines) ==
    IF clearedLines > 0
    THEN clearedLines * (100 + (prevStreak + 1) * 10)
    ELSE 0

\* lines 111, 114-117
LinePoints(prevStreak, clearedLines) ==
    IF clearedLines > 0
    THEN LET newStreak == prevStreak + 1
             streakBonus == (newStreak - 1) * 10
         IN clearedLines * (100 + streakBonus)
    ELSE 0

\* Mutant: the board before line clearing is stored
BoardToSet_Uncleared(newGrid, updatedGrid) == newGrid

\* line 138: the board handed to setGrid
BoardToSet(newGrid, updatedGrid) == updatedGrid

\* Mutant: splice(selectedShape) without the count removes to the end
RemoveUsed_ToEnd(shapes, sel) == SubSeq(shapes, 1, sel)

\* lines 146-147: copy of availableShapes with the element at index sel removed
RemoveUsed(shapes, sel) ==
    [i \in 1 .. (Len(shapes) - 1) |->
        IF i <= sel THEN shapes[i] ELSE shapes[i + 1]]

\* lines 149-154
NextShapes(newAvailableShapes, freshShapes) ==
    IF Len(newAvailableShapes) = 0 THEN freshShapes ELSE newAvailableShapes

\* Mutant: setSelectedShape(null) of line 156 is missing
SelectionAfterPlacement_Kept(sel) == sel

\* line 156: setSelectedShape(null)
SelectionAfterPlacement(sel) == NoSelection

\* What a cell click is observed to have been given. partial: some target
\* cell of the selected shape is on the board and empty
ClickObs(rowIndex, colIndex) ==
    LET hadShape == selectedShape # NoSelection
    IN [ op |-> "click", placed |-> FALSE,
         hadShape |-> hadShape, wasOver |-> gameOver,
         canPlace |-> hadShape /\ checkPlacement(grid,
                         availableShapes[selectedShape + 1], rowIndex, colIndex),
         partial |-> hadShape /\
            \E t \in Targets(availableShapes[selectedShape + 1],
                             rowIndex, colIndex) :
                InBounds(t[1], t[2]) /\ grid[t[1]][t[2]] = null ]

Rejected(rowIndex, colIndex) ==
    /\ last' = ClickObs(rowIndex, colIndex)
    /\ UNCHANGED <<score, highScore, grid, availableShapes, selectedShape,
                   gameOver, streak, showAnimation, animationData, hideTimers,
                   mounted, effectPending, cookie, placements, hoverVars, flashVars>>

Placed(rowIndex, colIndex, freshShapes) ==
    LET shape == availableShapes[selectedShape + 1]
        newGrid == PlaceBlocks(grid, shape, rowIndex, colIndex)
        placementPoints == PlacementPoints(shape)
        cleared == clearLines(newGrid)
        clearedLines == cleared.clearedLines
        linePoints == LinePoints(streak, clearedLines)
        newStreak == NewStreak(streak, clearedLines)
        totalPointsScored == placementPoints + linePoints
        newAvailableShapes == RemoveUsed(availableShapes, selectedShape)
    IN /\ grid' = BoardToSet(newGrid, cleared.updatedGrid)
       /\ score' = score + totalPointsScored
       /\ streak' = newStreak
       /\ IF clearedLines > 0
          THEN /\ animationData' = [ lines |-> clearedLines,
                                     streak |-> newStreak,
                                     points |-> linePoints + placementPoints ]
               /\ showAnimation' = TRUE
               /\ hideTimers' = hideTimers + 1
          ELSE UNCHANGED <<animationData, showAnimation, hideTimers>>
       /\ availableShapes' = NextShapes(newAvailableShapes, freshShapes)
       /\ selectedShape' = SelectionAfterPlacement(selectedShape)
       /\ effectPending' = TRUE
       /\ previewPending' = TRUE
       /\ flashPending' = TRUE
       /\ placements' = placements + 1
       /\ last' = [ op |-> "click", placed |-> TRUE,
                    row |-> rowIndex, col |-> colIndex,
                    hadShape |-> TRUE, wasOver |-> gameOver,
                    canPlace |-> checkPlacement(grid, shape, rowIndex, colIndex),
                    shape |-> shape,
                    inputBefore |-> grid,
                    inputAfter |-> InputAfterWrites(grid, newGrid),
                    clearedLines |-> clearedLines,
                    replenished |-> Len(newAvailableShapes) = 0,
                    prevScore |-> score, prevStreak |-> streak,
                    prevShapes |-> availableShapes,
                    prevSelected |-> selectedShape ]
       /\ UNCHANGED <<highScore, gameOver, mounted, cookie, hoverPosition,
                      previewGrid, flashingCells, flashTimer>>

Idle == mounted /\ ~effectPending /\ ~previewPending /\ ~flashPending

handlePlaceShape(rowIndex, colIndex) ==
    /\ IF EarlyReturn(selectedShape, gameOver)
       THEN Rejected(rowIndex, colIndex)
       ELSE IF Proceeds(checkPlacement(grid, availableShapes[selectedShape + 1],
                                       rowIndex, colIndex))
            THEN \E freshShapes \in generateShapes(3) :
                    Placed(rowIndex, colIndex, freshShapes)
            ELSE Rejected(rowIndex, colIndex)

-----------------------------------------------------------------------------
(* The other handlers and effects of App *)

Obs(op) == [op |-> op]

\* Mutant: setGameOver(false) of line 79 is missing
resetGame_KeepsStatus(freshShapes) ==
    /\ grid' = EmptyGrid
    /\ score' = 0
    /\ streak' = 0
    /\ availableShapes' = freshShapes
    /\ selectedShape' = NoSelection
    /\ gameOver' = gameOver

\* Mutant: setGrid of line 74 is missing
resetGame_KeepsGrid(freshShapes) ==
    /\ grid' = grid
    /\ score' = 0
    /\ streak' = 0
    /\ availableShapes' = freshShapes
    /\ selectedShape' = NoSelection
    /\ gameOver' = FALSE

\* Mutant: setScore(0) of line 75 is missing
resetGame_KeepsScore(freshShapes) ==
    /\ grid' = EmptyGrid
    /\ score' = score
    /\ streak' = 0
    /\ availableShapes' = freshShapes
    /\ selectedShape' = NoSelection
    /\ gameOver' = FALSE

\* lines 73-80
resetGame(freshShapes) ==
    /\ grid' = EmptyGrid
    /\ score' = 0
    /\ streak' = 0
    /\ availableShapes' = freshShapes
    /\ selectedShape' = NoSelection
    /\ gameOver' = FALSE

\* lines 27-30: the saved high score read at mount; 0 stands for no cookie
SavedHighScores == {0, 490}

NoCookie == << >>

\* line 44: highScore.toString(), the decimal digits of a non-negative integer
RECURSIVE toString(_)
toString(n) ==
    IF n < 10 THEN <<n>> ELSE Append(toString(n \div 10), n % 10)

\* line 29: parseInt(savedHighScore, 10) of a string of decimal digits
RECURSIVE parseInt(_)
parseInt(str) ==
    IF Len(str) = 1 THEN str[1]
    ELSE 10 * parseInt(SubSeq(str, 1, Len(str) - 1)) + str[Len(str)]

\* The cookie a browser holds when the saved high score is saved
CookieOf(saved) == IF saved > 0 THEN toString(saved) ELSE NoCookie

\* lines 27-30
LoadedHighScore(ck, hs) == IF ck # NoCookie THEN parseInt(ck) ELSE hs

\* lines 43-45: the save effect; it is due when highScore has changed, and
\* saving an unchanged high score writes the value the cookie holds
SavedCookie(hs, ck) == IF hs > 0 THEN toString(hs) ELSE ck

\* lines 26-39: the mount effect
Mount ==
    /\ ~mounted
    /\ highScore' = LoadedHighScore(cookie, highScore)
    /\ \E freshShapes \in generateShapes(3) : resetGame(freshShapes)
    /\ mounted' = TRUE
    /\ effectPending' = TRUE
    /\ previewPending' = TRUE
    /\ flashPending' = TRUE
    /\ last' = Obs("mount")
    /\ UNCHANGED <<showAnimation, animationData, hideTimers, cookie,
                   placements, hoverPosition, previewGrid, flashingCells,
                   flashTimer>>

\* lines 231-236: the Play Again button of the game-over overlay (line 223)
PlayAgain ==
    /\ Idle
    /\ gameOver
    /\ \E freshShapes \in generateShapes(3) : resetGame(freshShapes)
    /\ effectPending' = TRUE
    /\ previewPending' = TRUE
    /\ flashPending' = TRUE
    /\ last' = [ op |-> "reset", prevScore |-> score, prevStreak |-> streak,
                 prevHighScore |-> highScore, prevSelected |-> selectedShape ]
    /\ UNCHANGED <<highScore, showAnimation, animationData, hideTimers,
                   mounted, cookie, placements, hoverPosition, previewGrid,
                   flashingCells, flashTimer>>

\* lines 82-84
handleShapeSelect(index) ==
    /\ Idle
    /\ selectedShape' = index
    /\ previewPending' = (index # selectedShape)
    /\ last' = [op |-> "select", index |-> index]
    /\ UNCHANGED <<score, highScore, grid, availableShapes, gameOver, streak,
                   showAnimation, animationData, hideTimers, mounted,
                   effectPending, cookie, placements, hoverPosition,
                   previewGrid, flashVars>>

\* Mutant: the test of line 52 is negated
GameOverDetected_Negated(g, shapes, over) ==
    Len(shapes) > 0 /\ ~over /\ ~checkGameOver(g, shapes)

\* Mutant: only the first available piece is tried
GameOverDetected_FirstPieceOnly(g, shapes, over) ==
    Len(shapes) > 0 /\ ~over /\ checkGameOver(g, <<shapes[1]>>)

\* Mutant: the length test reads > 1
GameOverDetected_SkipsLastPiece(g, shapes, over) ==
    Len(shapes) > 1 /\ ~over /\ checkGameOver(g, shapes)

\* lines 50-52: the game-over detector
GameOverDetected(g, shapes, over) ==
    Len(shapes) > 0 /\ ~over /\ checkGameOver(g, shapes)

\* Mutant: the comparison of line 56 reads score < highScore
HighScoreAtGameOver_Inverted(sc, hs) == IF sc < hs THEN sc ELSE hs

\* lines 56-58
HighScoreAtGameOver(sc, hs) == IF sc > hs THEN sc ELSE hs

\* lines 48-61: the game-over effect, preceded in the same flush by the save
\* effect (lines 41-46); setting gameOver changes a dependency, so the effects
\* are due once more
GameOverEffect ==
    /\ mounted
    /\ effectPending
    /\ ~previewPending /\ ~flashPending
    /\ cookie' = SavedCookie(highScore, cookie)
    /\ IF GameOverDetected(grid, availableShapes, gameOver)
       THEN /\ gameOver' = TRUE
            /\ highScore' = HighScoreAtGameOver(score, highScore)
            /\ effectPending' = TRUE
            /\ last' = [ op |-> "gameover", prevHighScore |-> highScore ]
       ELSE /\ effectPending' = FALSE
            /\ last' = Obs("effect")
            /\ UNCHANGED <<gameOver, highScore>>
    /\ UNCHANGED <<score, grid, availableShapes, selectedShape, streak,
                   showAnimation, animationData, hideTimers, mounted,
                   placements, hoverVars, flashVars>>

\* lines 128-130: a pending hide timer fires
HideAnimation ==
    /\ Idle
    /\ hideTimers > 0
    /\ hideTimers' = hideTimers - 1
    /\ showAnimation' = FALSE
    /\ last' = Obs("timer")
    /\ UNCHANGED <<score, highScore, grid, availableShapes, selectedShape,
                   gameOver, streak, animationData, mounted, effectPending,
                   cookie, placements, hoverVars, flashVars>>

\* lines 160-163
clearHighScore ==
    /\ Idle
    /\ cookie' = NoCookie
    /\ highScore' = 0
    /\ effectPending' = (highScore # 0)
    /\ last' = Obs("clearHighScore")
    /\ UNCHANGED <<score, grid, availableShapes, selectedShape, gameOver,
                   streak, showAnimation, animationData, hideTimers, mounted,
                   placements, hoverVars, flashVars>>

-----------------------------------------------------------------------------
(* GameBoard: the hover preview *)

\* GameBoard.tsx line 11: no cell is hovered
NoHover == << >>

\* GameBoard.tsx lines 10, 44: the empty preview board
NoPreview == << >>

\* part_000 line 202: the selectedShape prop of GameBoard is not null
HasShapeProp == selectedShape # NoSelection

\* part_000 line 202: the selectedShape prop of GameBoard, when not null
ShapeProp == availableShapes[selectedShape + 1]

\* Mutant: line 19 copies the board as [...grid], sharing its rows
PreviewSharedRows_Shallow(g) == Idx

\* GameBoard.tsx line 19: grid.map(row => [...row]) copies every row, so the
\* preview board shares no row with the board
PreviewSharedRows(g) == {}

\* GameBoard.tsx lines 22-40: the blocks from the i-th on are drawn into pg
\* in their order; canPlace is the flag as the earlier blocks left it
RECURSIVE DrawPreview(_, _, _, _, _, _, _)
DrawPreview(pg, g, shape, hoverRow, hoverCol, i, canPlace) ==
    IF i > Len(shape.blocks) THEN pg
    ELSE LET newRow == hoverRow + shape.blocks[i][1]
             newCol == hoverCol + shape.blocks[i][2]
         IN IF InBounds(newRow, newCol)
            THEN LET stillCanPlace == canPlace /\ g[newRow][newCol] = null
                     mark == IF stillCanPlace THEN shape.color \o "-preview"
                             ELSE "invalid"
                 IN DrawPreview(
                        [pg EXCEPT ![newRow] = [@ EXCEPT ![newCol] = mark]],
                        g, shape, hoverRow, hoverCol, i + 1, stillCanPlace)
            ELSE DrawPreview(pg, g, shape, hoverRow, hoverCol, i + 1, FALSE)

\* GameBoard.tsx lines 16-40: newPreviewGrid when the effect reaches line 42
NewPreviewGrid(g, shape, hover) ==
    DrawPreview(g, g, shape, hover[1], hover[2], 1, TRUE)

\* The board prop after the effect: a row shared with newPreviewGrid holds
\* what was drawn into it
GridAfterPreview(g, newPreviewGrid) ==
    [r \in Idx |-> IF r \in PreviewSharedRows(g) THEN newPreviewGrid[r]
                   ELSE g[r]]

\* GameBoard.tsx lines 14-46: the preview effect, run when it is due
PreviewEffect ==
    IF previewPending
    THEN /\ IF hoverPosition # NoHover /\ HasShapeProp
            THEN LET newPreviewGrid ==
                         NewPreviewGrid(grid, ShapeProp, hoverPosition)
                 IN /\ previewGrid' = newPreviewGrid
                    /\ grid' = GridAfterPreview(grid, newPreviewGrid)
            ELSE /\ previewGrid' = NoPreview
                 /\ grid' = grid
         /\ previewPending' = FALSE
    ELSE UNCHANGED <<previewGrid, grid, previewPending>>

\* GameBoard.tsx line 55
isRowFull(g, row) == \A col \in Idx : g[row][col] # null

\* GameBoard.tsx line 65
isColFull(g, col) == \A row \in Idx : g[row][col] # null

\* GameBoard.tsx lines 57-59: the cells of a row in the order of their push
RowCells(row) == [i \in 1 .. GRID_SIZE |-> <<row, i - 1>>]

\* GameBoard.tsx lines 54-61: the rows from `row` on
RECURSIVE FlashRows(_, _, _)
FlashRows(g, row, cells) ==
    IF row >= GRID_SIZE THEN cells
    ELSE FlashRows(g, row + 1,
                   IF isRowFull(g, row) THEN cells \o RowCells(row) ELSE cells)

\* Mutant: the test of line 68 is missing, every cell of a column is pushed
Listed_Never(cells, row, col) == FALSE

\* GameBoard.tsx line 68: newFlashingCells.some(cell => ...)
Listed(cells, row, col) ==
    \E i \in 1 .. Len(cells) : cells[i] = <<row, col>>

\* GameBoard.tsx lines 67-71: the cells of a complete column from `row` on
RECURSIVE FlashColumn(_, _, _)
FlashColumn(col, row, cells) ==
    IF row >= GRID_SIZE THEN cells
    ELSE FlashColumn(col, row + 1,
                     IF ~Listed(cells, row, col)
                     THEN Append(cells, <<row, col>>) ELSE cells)

\* GameBoard.tsx lines 64-73: the columns from `col` on
RECURSIVE FlashCols(_, _, _)
FlashCols(g, col, cells) ==
    IF col >= GRID_SIZE THEN cells
    ELSE FlashCols(g, col + 1,
                   IF isColFull(g, col) THEN FlashColumn(col, 0, cells)
                   ELSE cells)

\* GameBoard.tsx lines 50-73: newFlashingCells when line 75 is reached
NewFlashingCells(g) == FlashCols(g, 0, FlashRows(g, 0, << >>))

\* GameBoard.tsx lines 48-85: the flashing effect, run when it is due on the
\* board the preview effect left; the cleanup of its last run (line 83) stops
\* a timer that still runs
FlashingEffect ==
    IF flashPending
    THEN LET newFlashingCells == NewFlashingCells(grid')
         IN /\ IF Len(newFlashingCells) > 0
               THEN /\ flashingCells' = newFlashingCells
                    /\ flashTimer' = TRUE
               ELSE /\ flashingCells' = flashingCells
                    /\ flashTimer' = FALSE
            /\ flashPending' = FALSE
    ELSE UNCHANGED flashVars

\* The effects of GameBoard that are due, flushed in the order of their
\* declaration
GameBoardEffects ==
    /\ mounted
    /\ previewPending \/ flashPending
    /\ PreviewEffect
    /\ FlashingEffect
    /\ last' = Obs("boardEffects")
    /\ UNCHANGED <<score, highScore, availableShapes, selectedShape, gameOver,
                   streak, showAnimation, animationData, hideTimers, mounted,
                   effectPending, cookie, placements, hoverPosition>>

\* GameBoard.tsx lines 79-81: the timer of the flashing effect fires
FlashTimeout ==
    /\ flashTimer
    /\ ~flashPending
    /\ flashingCells' = << >>
    /\ flashTimer' = FALSE
    /\ last' = Obs("flashTimeout")
    /\ UNCHANGED <<score, highScore, grid, availableShapes, selectedShape,
                   gameOver, streak, showAnimation, animationData, hideTimers,
                   mounted, effectPending, cookie, placements, hoverVars,
                   flashPending>>

\* GameBoard.tsx lines 87-91
handleMouseEnter(rowIndex, colIndex) ==
    /\ Idle
    /\ IF HasShapeProp
       THEN /\ hoverPosition' = <<rowIndex, colIndex>>
            /\ previewPending' = TRUE
       ELSE UNCHANGED <<hoverPosition, previewPending>>
    /\ last' = [op |-> "enter", row |-> rowIndex, col |-> colIndex]
    /\ UNCHANGED <<score, highScore, grid, availableShapes, selectedShape,
                   gameOver, streak, showAnimation, animationData, hideTimers,
                   mounted, effectPending, cookie, placements, previewGrid,
                   flashVars>>

\* GameBoard.tsx lines 93-95
handleMouseLeave ==
    /\ Idle
    /\ hoverPosition' = NoHover
    /\ previewPending' = (hoverPosition # NoHover)
    /\ last' = Obs("leave")
    /\ UNCHANGED <<score, highScore, grid, availableShapes, selectedShape,
                   gameOver, streak, showAnimation, animationData, hideTimers,
                   mounted, effectPending, cookie, placements, previewGrid,
                   flashVars>>

-----------------------------------------------------------------------------
(* Initial states *)

\* The cells the modelled player clicks
ClickCells == { <<0, 0>>, <<1, 1>>, <<2, 2>>, <<7, 7>> }

\* A mid-game board: every cell occupied but these (no row or column is
\* complete). It is reached from the empty board by placing single blocks,
\* none of which completes a line, so the score is 10 per occupied cell, the
\* streak is 0, and with 48 cells placed a fresh batch of 3 has just been drawn.
MidHoles ==
    { <<0, 0>>, <<1, 1>>, <<2, 2>>, <<2, 3>>, <<2, 4>>, <<2, 5>>, <<3, 3>>,
      <<3, 7>>, <<4, 4>>, <<5, 1>>, <<5, 5>>, <<5, 7>>, <<6, 2>>, <<6, 6>>,
      <<7, 3>>, <<7, 7>> }

MidGrid ==
    [r \in Idx |-> [c \in Idx |->
        IF <<r, c>> \in MidHoles THEN null
        ELSE IF (r + c) % 2 = 0 THEN "red" ELSE "blue"]]

Occupied(g) == { cell \in Cells : g[cell[1]][cell[2]] # null }

\* lines 12-23: the state of the first render
FirstRender ==
    /\ score = 0
    /\ highScore = 0
    /\ grid = EmptyGrid
    /\ availableShapes \in generateShapes(3)
    /\ selectedShape = NoSelection
    /\ gameOver = FALSE
    /\ streak = 0
    /\ mounted = FALSE
    /\ effectPending = FALSE
    /\ previewPending = FALSE
    /\ flashPending = FALSE
    /\ cookie \in { CookieOf(saved) : saved \in SavedHighScores }

\* The state right after the placement that produced MidGrid
MidGame ==
    /\ score = 10 * Cardinality(Occupied(MidGrid))
    /\ highScore \in SavedHighScores
    /\ cookie = CookieOf(highScore)
    /\ grid = MidGrid
    /\ availableShapes \in generateShapes(3)
    /\ selectedShape = NoSelection
    /\ gameOver = FALSE
    /\ streak = 0
    /\ mounted = TRUE
    /\ effectPending = TRUE
    /\ previewPending = TRUE
    /\ flashPending = TRUE

Init ==
    /\ FirstRender \/ MidGame
    /\ showAnimation = FALSE
    /\ animationData = [lines |-> 0, streak |-> 0, points |-> 0]
    /\ hideTimers = 0
    /\ placements = 0
    /\ hoverPosition = NoHover
    /\ previewGrid = NoPreview
    /\ flashingCells = << >>
    /\ flashTimer = FALSE
    /\ last = Obs("init")

Click ==
    /\ Idle
    /\ placements < MaxPlacements
    /\ \E cell \in ClickCells : handlePlaceShape(cell[1], cell[2])

\* components/ShapeSelector: the indices it passes to onSelectShape are
\* those of the shapes it is given
SelectableIndices == 0 .. (Len(availableShapes) - 1)

Select ==
    \E index \in SelectableIndices : handleShapeSelect(index)

\* The cells the modelled pointer enters
HoverCells == { <<7, 7>> }

MouseEnter ==
    \E cell \in HoverCells : handleMouseEnter(cell[1], cell[2])

Next ==
    \/ Mount
    \/ Select
    \/ Click
    \/ MouseEnter
    \/ handleMouseLeave
    \/ GameBoardEffects
    \/ GameOverEffect
    \/ PlayAgain
    \/ HideAnimation
    \/ clearHighScore

Spec == Init /\ [][Next]_vars

\* Effects are flushed after the commit that scheduled them: a due game-over
\* effect does run
FairSpec == Spec /\ WF_vars(GameBoardEffects) /\ WF_vars(GameOverEffect)

-----------------------------------------------------------------------------
(* Completed-line detection on boards with chosen complete lines *)

\* The rows and the columns that are complete on the boards explored
LineRows == {0, 1, 7}

LineCols == {0, 3, 7}

\* The board whose complete rows are `rows` and complete columns `cols`:
\* every third cell of the other lines is occupied, none of them completely
LineBoard(rows, cols) ==
    [r \in Idx |-> [c \in Idx |->
        IF r \in rows \/ c \in cols THEN "red"
        ELSE IF (r + c) % 3 = 0 THEN "blue" ELSE null]]

\* GameBoard has just been given a board with complete lines
LineInit ==
    /\ \E rows \in SUBSET LineRows, cols \in SUBSET LineCols :
          grid = LineBoard(rows, cols)
    /\ last = Obs("board")
    /\ score = 0 /\ highScore = 0 /\ streak = 0
    /\ availableShapes \in generateShapes(3)
    /\ selectedShape = NoSelection
    /\ gameOver = FALSE
    /\ showAnimation = FALSE
    /\ animationData = [lines |-> 0, streak |-> 0, points |-> 0]
    /\ hideTimers = 0
    /\ mounted = TRUE
    /\ effectPending = TRUE
    /\ cookie = NoCookie
    /\ placements = 0
    /\ hoverPosition = NoHover
    /\ previewGrid = NoPreview
    /\ previewPending = TRUE
    /\ flashingCells = << >>
    /\ flashTimer = FALSE
    /\ flashPending = TRUE

\* part_000 lines 107-108: clearLines is applied to the board, and the board
\* it returns is the next grid prop
ApplyClearLines ==
    /\ last.op # "clearLines"
    /\ LET cleared == clearLines(grid)
       IN /\ grid' = cleared.updatedGrid
          /\ last' = [ op |-> "clearLines", input |-> grid,
                       clearedLines |-> cleared.clearedLines,
                       clearedPositions |-> cleared.clearedPositions ]
    /\ previewPending' = TRUE
    /\ flashPending' = TRUE
    /\ UNCHANGED <<score, highScore, availableShapes, selectedShape, gameOver,
                   streak, showAnimation, animationData, hideTimers, mounted,
                   effectPending, cookie, placements, hoverPosition,
                   previewGrid, flashingCells, flashTimer>>

LineNext ==
    \/ ApplyClearLines
    \/ GameBoardEffects
    \/ FlashTimeout

LineSpec == LineInit /\ [][LineNext]_vars

-----------------------------------------------------------------------------
(* Claims *)

\* The last operation was a cell click that placed the selected shape
PlacedLast == last.op = "click" /\ last.placed

\* The target cells of the placement last observed
LastTargets == Targets(last.shape, last.row, last.col)

\* C1: a cell click whose placement is illegal (a target cell is off the
\* board or occupied) changes nothing: board, score, streak, available
\* pieces, selected index and status all stay as they were.
C1_IllegalClickIsNoOp ==
    [][ (last'.op = "click" /\ last'.hadShape /\ ~last'.canPlace)
            => UNCHANGED <<grid, score, streak, availableShapes,
                           selectedShape, gameOver>> ]_vars

\* C1 witness: a click was rejected although one target cell was on the board
\* and empty (a partial placement was possible) and the game was not over
C1_Witness ==
    /\ last.op = "click" /\ last.hadShape /\ ~last.wasOver
    /\ ~last.canPlace /\ last.partial /\ ~last.placed

\* C2: a legal placement leaves the board object that was current before the
\* handler cell-for-cell as it was.
C2_InputBoardNotMutated ==
    (PlacedLast /\ last.canPlace) => last.inputAfter = last.inputBefore

\* Cells occupied once the shape is on the previous board
FilledAfterPlacing(r, c) ==
    last.inputBefore[r][c] # null \/ <<r, c>> \in LastTargets

InCompletedLine(r, c) ==
    \/ \A cc \in Idx : FilledAfterPlacing(r, cc)
    \/ \A rr \in Idx : FilledAfterPlacing(rr, c)

\* C3: after a legal placement every cell of a completed row or column is
\* empty, every other target cell holds the shape's colour, every other cell
\* keeps its previous value, and no occupied cell changed colour.
C3_PlacementFrame ==
    (PlacedLast /\ last.canPlace) =>
        \A r \in Idx, c \in Idx :
            /\ grid[r][c] =
                 IF InCompletedLine(r, c) THEN null
                 ELSE IF <<r, c>> \in LastTargets THEN last.shape.color
                 ELSE last.inputBefore[r][c]
            /\ last.inputBefore[r][c] # null
                 => grid[r][c] \in {null, last.inputBefore[r][c]}

\* C3 witness: a legal placement of a multi-block shape completed a line and
\* left at least one of its cells outside every completed line
C3_Witness ==
    /\ PlacedLast /\ last.canPlace
    /\ last.clearedLines > 0
    /\ \E t \in LastTargets : grid[t[1]][t[2]] = last.shape.color
    /\ \E t \in LastTargets : grid[t[1]][t[2]] = null

\* C4: the current board never holds a complete row or a complete column.
C4_NoCompleteLine ==
    /\ \A r \in Idx : \E c \in Idx : grid[r][c] = null
    /\ \A c \in Idx : \E r \in Idx : grid[r][c] = null

\* C4 witness: a placement has just completed a row and a column at once
C4_Witness ==
    /\ PlacedLast /\ last.canPlace
    /\ \E r \in Idx, c \in Idx :
        /\ \A cc \in Idx : FilledAfterPlacing(r, cc)
        /\ \A rr \in Idx : FilledAfterPlacing(rr, c)

\* C5: a successful placement of b blocks clearing k lines with previous
\* streak s adds 10*b when k = 0 and 10*b + k*(100 + 10*s) when k > 0.
C5_ScoreDelta ==
    (PlacedLast /\ last.canPlace) =>
        LET b == Len(last.shape.blocks)
            k == last.clearedLines
            s == last.prevStreak
        IN score = last.prevScore + 10 * b
                       + (IF k > 0 THEN k * (100 + 10 * s) ELSE 0)

\* C5 witness: 4 blocks, previous streak 2, 1 line cleared: 160 points
C5_Witness ==
    /\ PlacedLast /\ last.canPlace
    /\ Len(last.shape.blocks) = 4
    /\ last.prevStreak = 2
    /\ last.clearedLines = 1
    /\ score = last.prevScore + 160

\* C6: a successful placement clearing at least one line sets the streak to
\* the previous streak + 1, one clearing none sets it to 0; a rejected click
\* and a piece selection leave it unchanged; a new game starts it at 0.
C6_StreakRule ==
    [][ /\ PlacedLast' =>
            streak' = IF last'.clearedLines > 0 THEN streak + 1 ELSE 0
        /\ (last'.op = "click" /\ ~last'.placed) => streak' = streak
        /\ last'.op = "select" => streak' = streak
        /\ last'.op \in {"reset", "mount"} => streak' = 0 ]_vars

\* C6 witness: a placement clearing no line reset a streak of at least 2 to 0
\* while the batch was replenished
C6_Witness ==
    /\ PlacedLast /\ last.canPlace
    /\ last.clearedLines = 0
    /\ last.prevStreak >= 2
    /\ last.replenished
    /\ streak = 0

\* C7: the score is a non-negative integer; every successful placement raises
\* it by at least 10, resetGame sets it to 0, every other operation leaves it
\* unchanged.
C7_ScoreMonotone ==
    [][ /\ score' \in Nat
        /\ IF last'.op \in {"reset", "mount"} THEN score' = 0
           ELSE IF PlacedLast' THEN score' >= score + 10
           ELSE score' = score ]_vars

\* C7 witness: resetGame has taken a positive score back to 0
C7_Witness ==
    last.op = "reset" /\ last.prevScore > 0 /\ score = 0

\* Whether the shape fits with its anchor at (row, col)
Fits(g, shape, row, col) ==
    \A i \in 1 .. Len(shape.blocks) :
        LET r == row + shape.blocks[i][1]
            c == col + shape.blocks[i][2]
        IN r \in Idx /\ c \in Idx /\ g[r][c] = null

NoLegalPlacement ==
    \A i \in 1 .. Len(availableShapes) : \A row \in Idx, col \in Idx :
        ~Fits(grid, availableShapes[i], row, col)

\* C8: whenever the status is GameOver, no available piece has a legal
\* placement at any of the 64 anchors of the current board.
C8_GameOverOnlyWhenStuck == gameOver => NoLegalPlacement

\* C8 witness: the detector has just set GameOver with two pieces left
C8_Witness ==
    gameOver /\ last.op = "gameover" /\ Len(availableShapes) = 2

C10_GameOverTerminal ==
    [][ /\ (gameOver /\ last'.op = "click")
            => UNCHANGED <<grid, score, streak, availableShapes>>
        /\ (gameOver /\ ~gameOver') => last'.op = "reset"
        /\ last'.op = "reset" => ~gameOver'
        /\ (~gameOver /\ gameOver') => last'.op = "gameover" ]_vars

\* C10 witness: a cell click with a shape selected was made while GameOver
C10_Witness ==
    last.op = "click" /\ last.wasOver /\ last.hadShape /\ gameOver

\* C11: the available piece set always holds 1 to 3 pieces; a successful
\* placement removes exactly the selected piece, the others keeping their
\* order, unless that leaves none, and then a whole fresh batch of 3 replaces
\* the set; a set that still holds a piece never grows.
C11_PieceSet ==
    /\ Len(availableShapes) \in 1 .. 3
    /\ (PlacedLast /\ last.canPlace) =>
        LET prev == last.prevShapes
            k == last.prevSelected + 1
        IN IF Len(prev) = 1
           THEN Len(availableShapes) = 3
           ELSE availableShapes =
                    SubSeq(prev, 1, k - 1) \o SubSeq(prev, k + 1, Len(prev))

\* C11 witness: the middle piece of a batch of 3 was placed and the first and
\* the last piece remain, in that order
C11_Witness ==
    /\ PlacedLast /\ last.canPlace
    /\ Len(last.prevShapes) = 3 /\ last.prevSelected = 1
    /\ availableShapes = <<last.prevShapes[1], last.prevShapes[3]>>
    /\ last.prevShapes[1] # last.prevShapes[3]

\* C12: resetGame, at mount (Playing) and from the game-over overlay, leaves
\* all 64 cells empty, score 0, streak 0, exactly 3 available pieces, no
\* selected piece and status Playing, and does not change the high score.
C12_ResetState ==
    /\ last.op \in {"reset", "mount"} =>
        /\ \A r \in Idx, c \in Idx : grid[r][c] = null
        /\ score = 0
        /\ streak = 0
        /\ Len(availableShapes) = 3
        /\ selectedShape = NoSelection
        /\ ~gameOver
    /\ last.op = "reset" => highScore = last.prevHighScore

\* C12 witness: resetGame ran from GameOver with a piece selected, a positive
\* score and a positive high score
C12_Witness ==
    /\ last.op = "reset"
    /\ last.prevSelected # NoSelection
    /\ last.prevScore > 0
    /\ last.prevHighScore > 0
    /\ highScore = last.prevHighScore

Max(a, b) == IF a >= b THEN a ELSE b

\* C13 as claimed: the high score changes only at the moment the status
\* becomes GameOver, only when the score is strictly greater, and then to the
\* score.
C13_OnlyAtGameOver ==
    [][ /\ highScore' # highScore =>
            (~gameOver /\ gameOver' /\ score > highScore /\ highScore' = score)
        /\ (~gameOver /\ gameOver') => highScore' = Max(highScore, score) ]_vars

\* C13, amended: the high score changes only when the mount effect loads the
\* saved value, when clearHighScore sets it to 0, and at the moment the status
\* becomes GameOver with a strictly greater score, and then to that score; so
\* right after that transition it is the larger of the two; selecting,
\* clicking a cell and resetGame never change it.
C13_HighScoreChanges ==
    [][ /\ highScore' # highScore =>
            \/ last'.op = "mount" /\ cookie # NoCookie
                    /\ cookie = toString(highScore')
            \/ last'.op = "clearHighScore" /\ highScore' = 0
            \/ /\ last'.op = "gameover" /\ ~gameOver /\ gameOver'
               /\ score > highScore /\ highScore' = score
        /\ (~gameOver /\ gameOver') => highScore' = Max(highScore, score)
        /\ last'.op \in {"select", "click", "reset"}
            => highScore' = highScore ]_vars

\* C13 witness: the status has just become GameOver with a score above a
\* positive high score, which now equals the score
C13_Witness ==
    /\ last.op = "gameover" /\ gameOver
    /\ last.prevHighScore > 0
    /\ score > last.prevHighScore
    /\ highScore = score

\* C14: with an empty board, or a board whose only occupied cell is (0,0),
\* some available piece fits and the status is Playing; placing a 1-block
\* piece at (0,0) on the fresh board of a new game gives score 10 and leaves
\* 2 pieces.
C14_FreshBoardPlaying ==
    /\ Occupied(grid) \subseteq {<<0, 0>>} => (~gameOver /\ ~NoLegalPlacement)
    /\ ( /\ PlacedLast /\ last.canPlace
         /\ last.inputBefore = EmptyGrid /\ last.prevScore = 0
         /\ Len(last.prevShapes) = 3
         /\ Len(last.shape.blocks) = 1 /\ last.row = 0 /\ last.col = 0 )
       => (score = 10 /\ Len(availableShapes) = 2 /\ ~gameOver)

\* C14 witness: after a 1-block piece went to (0,0) on the fresh board the
\* game-over effect has run and the status is Playing
C14_Witness ==
    /\ Idle /\ last.op = "effect"
    /\ Occupied(grid) = {<<0, 0>>}
    /\ score = 10 /\ Len(availableShapes) = 2
    /\ ~gameOver

\* C15: the selected index is null or a valid index of the available piece
\* set; right after a successful placement and after resetGame it is null.
C15_SelectionValid ==
    /\ \/ selectedShape = NoSelection
       \/ (selectedShape >= 0 /\ selectedShape < Len(availableShapes))
    /\ (PlacedLast \/ last.op \in {"reset", "mount"})
        => selectedShape = NoSelection

\* C15 witness: the last piece of a set of 3 was selected and placed, so its
\* index is no index of the remaining set, and nothing is selected
C15_Witness ==
    /\ PlacedLast /\ last.canPlace
    /\ last.prevSelected = 2
    /\ Len(availableShapes) = 2
    /\ selectedShape = NoSelection

\* C16: a step that moves the hover position or runs the preview computation
\* changes neither the board, the score, the streak, the piece set, the
\* status nor anything else a cell click reads or writes.
C16_HoverPresentational ==
    [][ (hoverPosition' # hoverPosition \/ (previewPending /\ ~previewPending'))
            => UNCHANGED <<grid, score, streak, availableShapes, gameOver,
                           selectedShape, highScore, placements>> ]_vars

\* C16 witness: the pointer entered cell (7,7), the preview was drawn there,
\* and the click that followed placed the piece on that cell
C16_Witness ==
    /\ PlacedLast
    /\ last.row = 7 /\ last.col = 7
    /\ hoverPosition = <<7, 7>>
    /\ previewGrid # NoPreview
    /\ previewGrid[7][7] = last.shape.color \o "-preview"
    /\ grid[7][7] = last.shape.color

\* C18: once the preview of a hovered anchor is drawn, a target cell of the
\* selected shape shows the valid preview of its colour only if the validator
\* accepts the whole placement at that anchor.
C18_PreviewAgreesWithValidator ==
    ( /\ ~previewPending
      /\ hoverPosition # NoHover /\ HasShapeProp
      /\ previewGrid # NoPreview )
    => \A t \in Targets(ShapeProp, hoverPosition[1], hoverPosition[2]) :
          ( /\ InBounds(t[1], t[2])
            /\ previewGrid[t[1]][t[2]] = ShapeProp.color \o "-preview" )
          => checkPlacement(grid, ShapeProp, hoverPosition[1], hoverPosition[2])

\* The cells of the complete lines of LineBoard(rows, cols)
LineCells(rows, cols) ==
    { cell \in Cells : cell[1] \in rows \/ cell[2] \in cols }

\* 8 * (r + c) - r * c for r rows and c columns
Entries(rows, cols) ==
    GRID_SIZE * (Cardinality(rows) + Cardinality(cols))
        - Cardinality(rows) * Cardinality(cols)

\* C17: on a board with r complete rows and c complete columns clearLines
\* reports r + c lines, and both its cleared cells and the list of flashing
\* cells are the cells of a complete row or column, each once:
\* 8 * (r + c) - r * c of them.
C17_LinesAndCells ==
    \A rows \in SUBSET LineRows, cols \in SUBSET LineCols :
       LET flashed == { flashingCells[i] : i \in 1 .. Len(flashingCells) }
       IN /\ ( /\ grid = LineBoard(rows, cols)
               /\ ~flashPending
               /\ flashTimer \/ Entries(rows, cols) = 0 )
             => /\ Len(flashingCells) = Entries(rows, cols)
                /\ flashed = LineCells(rows, cols)
                /\ Cardinality(flashed) = Len(flashingCells)
          /\ (last.op = "clearLines" /\ last.input = LineBoard(rows, cols))
             => /\ last.clearedLines = Cardinality(rows) + Cardinality(cols)
                /\ last.clearedPositions = LineCells(rows, cols)
                /\ Cardinality(last.clearedPositions) = Entries(rows, cols)

\* C17 witness: row 0 and column 0 are complete and flashing, 15 cells
C17_Witness ==
    /\ grid = LineBoard({0}, {0})
    /\ flashTimer /\ ~flashPending
    /\ Len(flashingCells) = 15
    /\ Cardinality({ i \in 1 .. 15 : flashingCells[i] = <<0, 0>> }) = 1

\* C19: the animation is hidden only by a hide timer, and only by the timer
\* of the placement that showed it last, so never while the timer of a later
\* placement is still pending; a timer that fires changes neither board,
\* score, streak nor status.
C19_OnlyOwnTimerHides ==
    [][ /\ (showAnimation /\ ~showAnimation')
            => (hideTimers' < hideTimers /\ hideTimers = 1)
        /\ (hideTimers' < hideTimers)
            => UNCHANGED <<grid, score, streak, gameOver>> ]_vars

====
